---- MODULE Spec2Model ----
(***************************************************************************)
(* yamlenums: the generation driver (func main of yamlenums.go) and the    *)
(* package analyzer it calls (parser.ParsePackage, Package.ValuesOfType).  *)
(* Text (flag values, type names, constant names, file names) is a         *)
(* sequence of ASCII codes, so that splitting, joining, lower-casing and   *)
(* lexicographic comparison are computed and not assumed.                  *)
(***************************************************************************)
EXTENDS Integers, Sequences, FiniteSets, TLC

\* Longest list of type names given to -type.
MaxTypes == 3
\* Number of successive runs of the tool over the same directory.
MaxRuns == 2

(***************************************************************************)
(* Text                                                                    *)
(***************************************************************************)
Comma == <<44>>                                             \* ","
DotGo == <<46, 103, 111>>                                   \* ".go"
DefaultSuffix == <<95, 121, 97, 109, 108, 101, 110, 117, 109, 115>>  \* "_yamlenums"
NoText == <<>>                                              \* ""

\* strings.ToLower on ASCII text
ToLower(s) == [k \in 1..Len(s) |-> IF s[k] \in 65..90 THEN s[k] + 32 ELSE s[k]]

\* Position of the first occurrence of the one-byte separator, 0 when absent.
RECURSIVE IndexFrom(_, _, _)
IndexFrom(s, sep, k) ==
    IF k > Len(s) THEN 0
    ELSE IF s[k] = sep[1] THEN k
    ELSE IndexFrom(s, sep, k + 1)

\* strings.Split(s, sep) for a one-byte separator: n separators give n+1 pieces.
RECURSIVE Split(_, _)
Split(s, sep) ==
    LET k == IndexFrom(s, sep, 1) IN
    IF k = 0 THEN <<s>>
    ELSE <<SubSeq(s, 1, k - 1)>> \o Split(SubSeq(s, k + 1, Len(s)), sep)

\* strings.Join(list, sep)
RECURSIVE Join(_, _)
Join(list, sep) ==
    IF Len(list) = 0 THEN NoText
    ELSE IF Len(list) = 1 THEN list[1]
    ELSE list[1] \o sep \o Join(Tail(list), sep)

\* Byte-wise lexicographic order of two texts (Go's < on strings).
RECURSIVE LexLess(_, _)
LexLess(a, b) ==
    IF Len(b) = 0 THEN FALSE
    ELSE IF Len(a) = 0 THEN TRUE
    ELSE IF a[1] # b[1] THEN a[1] < b[1]
    ELSE LexLess(Tail(a), Tail(b))

\* The texts of a set in ascending lexicographic order.
RECURSIVE SortedNames(_)
SortedNames(S) ==
    IF S = {} THEN <<>>
    ELSE LET m == CHOOSE x \in S : \A y \in S \ {x} : LexLess(x, y)
         IN <<m>> \o SortedNames(S \ {m})

(***************************************************************************)
(* The example package of the documentation, and one more type.            *)
(***************************************************************************)
Pill == <<80, 105, 108, 108>>
Flag == <<70, 108, 97, 103>>
Nope == <<78, 111, 112, 101>>          \* a type with no constants
NoType == <<>>                         \* a constant written without a type

Placebo == <<80, 108, 97, 99, 101, 98, 111>>
Aspirin == <<65, 115, 112, 105, 114, 105, 110>>
Ibuprofen == <<73, 98, 117, 112, 114, 111, 102, 101, 110>>
Paracetamol == <<80, 97, 114, 97, 99, 101, 116, 97, 109, 111, 108>>
Acetaminophen == <<65, 99, 101, 116, 97, 109, 105, 110, 111, 112, 104, 101, 110>>
Limit == <<76, 105, 109, 105, 116>>
Exec == <<69, 120, 101, 99>>
Store == <<83, 116, 111, 114, 101>>
Load == <<76, 111, 97, 100>>
Run == <<82, 117, 110>>
Bad == <<66, 97, 100>>
Oops == <<79, 111, 112, 115>>

\* Expressions of constant declarations.
Iota == [k |-> "iota"]
Lit(n) == [k |-> "lit", v |-> n]
Ref(name) == [k |-> "ref", n |-> name]
Shl(a, b) == [k |-> "shl", a |-> a, b |-> b]
Call == [k |-> "call"]                 \* a form the evaluator does not support
NoExpr == [k |-> "none"]

Entry(name, type, expr) == [name |-> name, type |-> type, expr |-> expr]

\* const ( Placebo Pill = iota; Aspirin; Ibuprofen; Paracetamol;
\*         Acetaminophen = Paracetamol )
PillGroup ==
    << Entry(Placebo, Pill, Iota),
       Entry(Aspirin, NoType, NoExpr),
       Entry(Ibuprofen, NoType, NoExpr),
       Entry(Paracetamol, NoType, NoExpr),
       Entry(Acetaminophen, NoType, Ref(Paracetamol)) >>

\* const ( Limit = 10; Exec Flag = 1 << iota; Store; Load; Run = Exec )
FlagGroup ==
    << Entry(Limit, NoType, Lit(10)),
       Entry(Exec, Flag, Shl(Lit(1), Iota)),
       Entry(Store, NoType, NoExpr),
       Entry(Load, NoType, NoExpr),
       Entry(Run, NoType, Ref(Exec)) >>

\* const Oops Bad = f()
BadGroup == << Entry(Oops, Bad, Call) >>

(***************************************************************************)
(* Files.  The bytes of a file are modelled by what a Go parser sees in    *)
(* them: whether they parse, the package clause, the constant groups, and  *)
(* for generated files the rendered chunks they hold.                      *)
(***************************************************************************)
SourceFile(pkgName, groups) ==
    [ok |-> TRUE, pkg |-> pkgName, groups |-> groups, chunks |-> <<>>]

\* A file left empty by a write that failed after truncating it.
EmptyFile == [ok |-> FALSE, pkg |-> "", groups |-> <<>>, chunks |-> <<>>]

PainkillerGo == <<112, 97, 105, 110, 107, 105, 108, 108, 101, 114, 46, 103, 111>>
OtherGo == <<111, 116, 104, 101, 114, 46, 103, 111>>
PillYamlenumsGo ==
    <<112, 105, 108, 108, 95, 121, 97, 109, 108, 101, 110, 117, 109, 115, 46, 103, 111>>
XpillYGo == <<120, 112, 105, 108, 108, 95, 121, 46, 103, 111>>

\* painkiller.go, the hand-written file of the package.
HandWritten == SourceFile("painkiller", <<PillGroup, FlagGroup, BadGroup>>)

EmptyDir == [p \in {} |-> EmptyFile]

PainkillerDir == [p \in {PainkillerGo} |-> HandWritten]

\* The package together with files an earlier tool left at output paths.
StaleDir ==
    [p \in {PainkillerGo, PillYamlenumsGo, XpillYGo} |->
        IF p = PainkillerGo THEN HandWritten ELSE SourceFile("painkiller", <<>>)]

\* Two declared packages in one directory.
MixedDir ==
    [p \in {PainkillerGo, OtherGo} |->
        IF p = PainkillerGo THEN HandWritten ELSE SourceFile("other", <<>>)]

Dirs == {PainkillerDir, StaleDir, MixedDir, EmptyDir}

(***************************************************************************)
(* parser.ParsePackage                                                     *)
(***************************************************************************)
RECURSIVE GroupsOf(_, _)
GroupsOf(files, names) ==
    IF Len(names) = 0 THEN <<>>
    ELSE files[names[1]].groups \o GroupsOf(files, Tail(names))

ParsePackage(files) ==
    LET names == DOMAIN files
        pkgs  == {files[p].pkg : p \in names}
    IN  IF names = {} \/ (\E p \in names : ~files[p].ok) \/ Cardinality(pkgs) # 1
        THEN [err |-> TRUE, Name |-> "", groups |-> <<>>]
        ELSE [err |-> FALSE,
              Name |-> CHOOSE n \in pkgs : TRUE,
              groups |-> GroupsOf(files, SortedNames(names))]

(***************************************************************************)
(* Package.ValuesOfType                                                    *)
(***************************************************************************)
\* The type of entry k: its own, else that of the nearest typed entry before it.
RECURSIVE EffectiveType(_, _)
EffectiveType(group, k) ==
    IF group[k].type # NoType THEN group[k].type
    ELSE IF k = 1 THEN NoType
    ELSE EffectiveType(group, k - 1)

\* The expression of entry k: its own, else the one repeated from above.
RECURSIVE EffectiveExpr(_, _)
EffectiveExpr(group, k) ==
    IF group[k].expr.k # "none" THEN group[k].expr
    ELSE IF k = 1 THEN NoExpr
    ELSE EffectiveExpr(group, k - 1)

RECURSIVE Pow2(_)
Pow2(n) == IF n = 0 THEN 1 ELSE 2 * Pow2(n - 1)

\* Value of an expression at group position iota, given the constants
\* resolved so far; ok is FALSE for an unsupported expression.
RECURSIVE Eval(_, _, _)
Eval(e, iota, resolved) ==
    IF e.k = "lit" THEN [ok |-> TRUE, v |-> e.v]
    ELSE IF e.k = "iota" THEN [ok |-> TRUE, v |-> iota]
    ELSE IF e.k = "ref" THEN
        IF \E j \in 1..Len(resolved) : resolved[j].name = e.n
        THEN [ok |-> TRUE,
              v |-> resolved[CHOOSE j \in 1..Len(resolved) : resolved[j].name = e.n].value]
        ELSE [ok |-> FALSE, v |-> 0]
    ELSE IF e.k = "shl" THEN
        LET a == Eval(e.a, iota, resolved)
            b == Eval(e.b, iota, resolved)
        IN  IF a.ok /\ b.ok /\ b.v >= 0
            THEN [ok |-> TRUE, v |-> a.v * Pow2(b.v)]
            ELSE [ok |-> FALSE, v |-> 0]
    ELSE [ok |-> FALSE, v |-> 0]

\* The entries of one group that have the requested type, resolved in order.
RECURSIVE ResolveGroup(_, _, _, _)
ResolveGroup(group, k, typeName, resolved) ==
    IF k > Len(group) THEN resolved
    ELSE IF EffectiveType(group, k) # typeName
    THEN ResolveGroup(group, k + 1, typeName, resolved)
    ELSE LET r == Eval(EffectiveExpr(group, k), k - 1, resolved)
         IN  ResolveGroup(group, k + 1, typeName,
                Append(resolved, [name |-> group[k].name, value |-> r.v, ok |-> r.ok]))

RECURSIVE ResolveAll(_, _, _)
ResolveAll(groups, typeName, resolved) ==
    IF Len(groups) = 0 THEN resolved
    ELSE ResolveAll(Tail(groups), typeName,
                    ResolveGroup(groups[1], 1, typeName, resolved))

\* Canonical name of a value: the name that is used when several constants
\* share the value.  LexSmallestName is the reading "smallest name string".
LexSmallestName(resolved, v) ==
    LET names == {resolved[j].name : j \in {j \in 1..Len(resolved) : resolved[j].value = v}}
    IN  CHOOSE n \in names : \A m \in names \ {n} : LexLess(n, m)

\* "the lexically first matching name will be used (in the example,
\* Acetaminophen will print as Paracetamol)": the first one in the source.
CanonicalName(resolved, v) ==
    resolved[CHOOSE j \in 1..Len(resolved) :
                /\ resolved[j].value = v
                /\ \A h \in 1..(j - 1) : resolved[h].value # v].name

\* One (name, value) pair per distinct value, in order of first appearance.
RECURSIVE ValueTable(_, _)
ValueTable(resolved, k) ==
    IF k > Len(resolved) THEN <<>>
    ELSE IF \E h \in 1..(k - 1) : resolved[h].value = resolved[k].value
    THEN ValueTable(resolved, k + 1)
    ELSE <<[name |-> CanonicalName(resolved, resolved[k].value),
            value |-> resolved[k].value]>> \o ValueTable(resolved, k + 1)

ValuesOfType(pkg, typeName) ==
    LET resolved == ResolveAll(pkg.groups, typeName, <<>>) IN
    IF \E j \in 1..Len(resolved) : ~resolved[j].ok
    THEN [err |-> "UnsupportedExpression", values |-> <<>>, resolved |-> resolved]
    ELSE IF Len(resolved) = 0
    THEN [err |-> "TypeNotFound", values |-> <<>>, resolved |-> resolved]
    ELSE [err |-> "", values |-> ValueTable(resolved, 1), resolved |-> resolved]

(***************************************************************************)
(* The command line and the collaborators of main                          *)
(***************************************************************************)
TypeUniverse == {Pill, Flag, Nope, Bad}

\* The values of -type: "" and every comma-separated list of up to MaxTypes names.
TypeLists == UNION {[1..n -> TypeUniverse] : n \in 0..MaxTypes}
TypeFlags == {Join(l, Comma) : l \in TypeLists}

\* -prefix and -suffix: the defaults, "x" with "_y", and an upper-case prefix.
AffixChoices ==
    { [prefix |-> NoText, suffix |-> DefaultSuffix],
      [prefix |-> <<120>>, suffix |-> <<95, 121>>],
      [prefix |-> <<88>>, suffix |-> DefaultSuffix] }

\* flag.Args(): no directory, one directory, two directories.
ArgChoices == { <<>>, <<"painkiller">>, <<"painkiller", "other">> }

\* filepath.Abs, from the working directory /work.
Abs(d) == IF d = "." THEN "/work" ELSE "/work/" \o d

\* generatedTmpl: renders well, renders text that gofmt rejects, or fails.
TemplateModes == {"ok", "badgo", "execerr"}

VARIABLES
    typeNames, outputPrefix, outputSuffix, args,   \* the command line
    tmpl,                                          \* behaviour of generatedTmpl
    disk,                                          \* files of the directory
    pc, exitCode, failure,                         \* position in main, exit status
    types, dir, pkg, analysis, i, buf, src,        \* locals of main
    run, startDisk, firstDisk,                     \* successive runs
    parseCalls, valueCalls, renders, writes, warnings   \* what this run did

flags == <<typeNames, outputPrefix, outputSuffix, args, tmpl>>
locals == <<types, dir, pkg, analysis, i, buf, src>>
runs == <<run, startDisk, firstDisk>>
hist == <<parseCalls, valueCalls, renders, writes, warnings>>
vars == <<flags, disk, pc, exitCode, failure, locals, runs, hist>>

NoPackage == [err |-> FALSE, Name |-> "", groups |-> <<>>]
NoValues == [t \in {} |-> <<>>]

\* strings.Join(os.Args[1:], " "): determined by the command line.
Command ==
    [type |-> typeNames, prefix |-> outputPrefix, suffix |-> outputSuffix, args |-> args]

NoAnalysis == [Command |-> Command, PackageName |-> "", TypesAndValues |-> NoValues]
NoSource == [text |-> NoAnalysis, formatted |-> FALSE]

Init ==
    /\ typeNames \in TypeFlags
    /\ \E a \in AffixChoices : outputPrefix = a.prefix /\ outputSuffix = a.suffix
    /\ args \in ArgChoices
    /\ tmpl \in TemplateModes
    /\ disk \in Dirs
    /\ pc = "flags"
    /\ exitCode = 0
    /\ failure = ""
    /\ types = <<>>
    /\ dir = "."
    /\ pkg = NoPackage
    /\ analysis = NoAnalysis
    /\ i = 0
    /\ buf = NoAnalysis
    /\ src = NoSource
    /\ run = 1
    /\ startDisk = disk
    /\ firstDisk = disk
    /\ parseCalls = 0
    /\ valueCalls = <<>>
    /\ renders = <<>>
    /\ writes = <<>>
    /\ warnings = <<>>

\* log.Fatalf: the message is logged and the process exits with status 1.
Fatalf(kind) ==
    /\ pc' = "failed"
    /\ exitCode' = 1
    /\ failure' = kind

\* The head of "for _, typeName := range types".
LoopAt(k) == IF k > Len(types) THEN "done" ELSE "values"

\* flag.Parse, the -type check and strings.Split.
FlagStep ==
    /\ pc = "flags"
    /\ IF Len(typeNames) = 0
       THEN /\ Fatalf("usage")
            /\ UNCHANGED types
       ELSE /\ types' = Split(typeNames, Comma)
            /\ pc' = "args"
            /\ UNCHANGED <<exitCode, failure>>
    /\ UNCHANGED <<flags, disk, dir, pkg, analysis, i, buf, src, runs, hist>>

\* Like ArgsStep, but more than one directory is tolerated (the first is used).
ArgsStepLenient ==
    /\ pc = "args"
    /\ dir' = Abs(IF Len(args) >= 1 THEN args[1] ELSE ".")
    /\ pc' = "parse"
    /\ UNCHANGED <<exitCode, failure>>
    /\ UNCHANGED <<flags, disk, types, pkg, analysis, i, buf, src, runs, hist>>

\* The directory: ".", the one argument, or a fatal error for more than one.
ArgsStep ==
    /\ pc = "args"
    /\ IF Len(args) > 1
       THEN /\ Fatalf("usage")
            /\ UNCHANGED dir
       ELSE /\ dir' = Abs(IF Len(args) = 1 THEN args[1] ELSE ".")
            /\ pc' = "parse"
            /\ UNCHANGED <<exitCode, failure>>
    /\ UNCHANGED <<flags, disk, types, pkg, analysis, i, buf, src, runs, hist>>

\* Like ParseStep, but the error of ParsePackage is not checked.
ParseStepUnchecked ==
    /\ pc = "parse"
    /\ parseCalls' = parseCalls + 1
    /\ pkg' = ParsePackage(disk)
    /\ analysis' = [Command |-> Command, PackageName |-> pkg'.Name,
                    TypesAndValues |-> NoValues]
    /\ i' = 1
    /\ pc' = LoopAt(1)
    /\ UNCHANGED <<exitCode, failure>>
    /\ UNCHANGED <<flags, disk, types, dir, buf, src, runs,
                   valueCalls, renders, writes, warnings>>

\* parser.ParsePackage(dir), then the rendering context, created once.
ParseStep ==
    /\ pc = "parse"
    /\ parseCalls' = parseCalls + 1
    /\ LET r == ParsePackage(disk) IN
       IF r.err
       THEN /\ Fatalf("parse")
            /\ UNCHANGED <<pkg, analysis, i>>
       ELSE /\ pkg' = r
            /\ analysis' = [Command |-> Command, PackageName |-> r.Name,
                            TypesAndValues |-> NoValues]
            /\ i' = 1
            /\ pc' = LoopAt(1)
            /\ UNCHANGED <<exitCode, failure>>
    /\ UNCHANGED <<flags, disk, types, dir, buf, src, runs,
                   valueCalls, renders, writes, warnings>>

\* analysis.TypesAndValues[typeName] = values
SetValues(m, typeName, values) ==
    [t \in DOMAIN m \cup {typeName} |-> IF t = typeName THEN values ELSE m[t]]

\* Like ValuesStep, but a type whose values cannot be found is skipped.
ValuesStepSkipping ==
    /\ pc = "values"
    /\ valueCalls' = Append(valueCalls, types[i])
    /\ LET r == ValuesOfType(pkg, types[i]) IN
       IF r.err # ""
       THEN /\ i' = i + 1
            /\ pc' = LoopAt(i + 1)
            /\ UNCHANGED analysis
       ELSE /\ analysis' = [analysis EXCEPT !.TypesAndValues =
                                SetValues(@, types[i], r.values)]
            /\ pc' = "render"
            /\ UNCHANGED i
    /\ UNCHANGED <<exitCode, failure>>
    /\ UNCHANGED <<flags, disk, types, dir, pkg, buf, src, runs,
                   parseCalls, renders, writes, warnings>>

\* Like ValuesStep, but the type mapping is made afresh for each type.
ValuesStepFresh ==
    /\ pc = "values"
    /\ valueCalls' = Append(valueCalls, types[i])
    /\ LET r == ValuesOfType(pkg, types[i]) IN
       IF r.err # ""
       THEN /\ Fatalf("values")
            /\ UNCHANGED analysis
       ELSE /\ analysis' = [analysis EXCEPT !.TypesAndValues =
                                SetValues(NoValues, types[i], r.values)]
            /\ pc' = "render"
            /\ UNCHANGED <<exitCode, failure>>
    /\ UNCHANGED <<flags, disk, types, dir, pkg, i, buf, src, runs,
                   parseCalls, renders, writes, warnings>>

\* pkg.ValuesOfType(typeName) and the entry it adds to the context.
ValuesStep ==
    /\ pc = "values"
    /\ valueCalls' = Append(valueCalls, types[i])
    /\ LET r == ValuesOfType(pkg, types[i]) IN
       IF r.err # ""
       THEN /\ Fatalf("values")
            /\ UNCHANGED analysis
       ELSE /\ analysis' = [analysis EXCEPT !.TypesAndValues =
                                SetValues(@, types[i], r.values)]
            /\ pc' = "render"
            /\ UNCHANGED <<exitCode, failure>>
    /\ UNCHANGED <<flags, disk, types, dir, pkg, i, buf, src, runs,
                   parseCalls, renders, writes, warnings>>

\* generatedTmpl.Execute(&buf, analysis)
RenderStep ==
    /\ pc = "render"
    /\ renders' = Append(renders, [idx |-> i, text |-> analysis])
    /\ IF tmpl = "execerr"
       THEN /\ Fatalf("render")
            /\ UNCHANGED buf
       ELSE /\ buf' = analysis
            /\ pc' = "format"
            /\ UNCHANGED <<exitCode, failure>>
    /\ UNCHANGED <<flags, disk, types, dir, pkg, analysis, i, src, runs,
                   parseCalls, valueCalls, writes, warnings>>

\* format.Source fails exactly on text that is not well-formed Go.
FormatFails(text) == tmpl = "badgo"

\* Like FormatStep, but a formatting error ends the run.
FormatStepStrict ==
    /\ pc = "format"
    /\ IF FormatFails(buf)
       THEN /\ Fatalf("format")
            /\ UNCHANGED src
       ELSE /\ src' = [text |-> buf, formatted |-> TRUE]
            /\ pc' = "write"
            /\ UNCHANGED <<exitCode, failure>>
    /\ UNCHANGED <<flags, disk, types, dir, pkg, analysis, i, buf, runs, hist>>

\* format.Source(buf.Bytes()); on error two warnings and src = buf.Bytes().
FormatStep ==
    /\ pc = "format"
    /\ IF FormatFails(buf)
       THEN /\ warnings' = Append(warnings, i)
            /\ src' = [text |-> buf, formatted |-> FALSE]
       ELSE /\ src' = [text |-> buf, formatted |-> TRUE]
            /\ UNCHANGED warnings
    /\ pc' = "write"
    /\ UNCHANGED <<exitCode, failure>>
    /\ UNCHANGED <<flags, disk, types, dir, pkg, analysis, i, buf, runs,
                   parseCalls, valueCalls, renders, writes>>

\* The bytes of src as a later parse of the file sees them.
Bytes(s) ==
    [ok |-> s.formatted, pkg |-> s.text.PackageName, groups |-> <<>>, chunks |-> <<s>>]

\* Output name without the prefix.
OutputNameNoPrefix(typeName) == ToLower(typeName \o outputSuffix \o DotGo)

\* Output name without lower-casing.
OutputNameAsGiven(typeName) == outputPrefix \o typeName \o outputSuffix \o DotGo

\* strings.ToLower(*outputPrefix + typeName + *outputSuffix + ".go")
OutputName(typeName) == ToLower(outputPrefix \o typeName \o outputSuffix \o DotGo)

\* A write that appends to a file that exists.
AppendFile(files, name, data) ==
    [p \in DOMAIN files \cup {name} |->
        IF p # name THEN files[p]
        ELSE IF name \in DOMAIN files
             THEN [data EXCEPT !.chunks = files[name].chunks \o @]
             ELSE data]

\* ioutil.WriteFile: creates the file or truncates it, then writes data.
WriteFile(files, name, data) ==
    [p \in DOMAIN files \cup {name} |-> IF p = name THEN data ELSE files[p]]

\* ioutil.WriteFile(outputPath, src, 0644).  The write succeeds, or fails before
\* the file is opened, or fails after the file was created or truncated.
WriteStep ==
    /\ pc = "write"
    /\ LET output == OutputName(types[i]) IN
       \E outcome \in {"ok", "untouched", "truncated"} :
          /\ writes' = Append(writes, [idx |-> i, dir |-> dir, name |-> output,
                                       data |-> Bytes(src), outcome |-> outcome])
          /\ disk' = IF outcome = "ok" THEN WriteFile(disk, output, Bytes(src))
                     ELSE IF outcome = "truncated" THEN WriteFile(disk, output, EmptyFile)
                     ELSE disk
          /\ IF outcome = "ok"
             THEN /\ i' = i + 1
                  /\ pc' = LoopAt(i + 1)
                  /\ UNCHANGED <<exitCode, failure>>
             ELSE /\ Fatalf("write")
                  /\ UNCHANGED i
    /\ UNCHANGED <<flags, types, dir, pkg, analysis, buf, src, runs,
                   parseCalls, valueCalls, renders, warnings>>

\* The tool is run again with the same command line over the same directory.
Rerun ==
    /\ pc \in {"done", "failed"}
    /\ failure # "write"
    /\ run < MaxRuns
    /\ run' = run + 1
    /\ startDisk' = disk
    /\ firstDisk' = IF run = 1 THEN disk ELSE firstDisk
    /\ pc' = "flags"
    /\ exitCode' = 0
    /\ failure' = ""
    /\ types' = <<>>
    /\ dir' = "."
    /\ pkg' = NoPackage
    /\ analysis' = NoAnalysis
    /\ i' = 0
    /\ buf' = NoAnalysis
    /\ src' = NoSource
    /\ parseCalls' = 0
    /\ valueCalls' = <<>>
    /\ renders' = <<>>
    /\ writes' = <<>>
    /\ warnings' = <<>>
    /\ UNCHANGED <<flags, disk>>

Next ==
    \/ FlagStep
    \/ ArgsStep
    \/ ParseStep
    \/ ValuesStep
    \/ RenderStep
    \/ FormatStep
    \/ WriteStep
    \/ Rerun

Spec == Init /\ [][Next]_vars

(***************************************************************************)
(* Properties                                                              *)
(***************************************************************************)
DefaultFlags == outputPrefix = NoText /\ outputSuffix = DefaultSuffix

\* The types the run has resolved so far, and their constants in source order.
ResolvedTypes == DOMAIN analysis.TypesAndValues
ConstantsOf(t) == ResolveAll(pkg.groups, t, <<>>)
ValuesIn(r) == {r[j].value : j \in 1..Len(r)}
NamesFor(r, v) == {r[j].name : j \in {j \in 1..Len(r) : r[j].value = v}}
RowsFor(tab, v) == {k \in 1..Len(tab) : tab[k].value = v}

\* The file a write of this run should have left at a path, if any did.
OkWrites(p) == {k \in 1..Len(writes) : writes[k].name = p /\ writes[k].outcome = "ok"}
LastOk(p) == CHOOSE k \in OkWrites(p) : \A h \in OkWrites(p) : h <= k
WrittenNames == {writes[k].name : k \in 1..Len(writes)}
AsWritten(p) ==
    /\ p \in DOMAIN disk
    /\ disk[p] = writes[LastOk(p)].data
Untouched(p) == p \in DOMAIN disk <=> p \in DOMAIN startDisk
StillAsAtStart(p) ==
    /\ Untouched(p)
    /\ p \in DOMAIN disk => disk[p] = startDisk[p]

PillTable ==
    << [name |-> Placebo, value |-> 0],
       [name |-> Aspirin, value |-> 1],
       [name |-> Ibuprofen, value |-> 2],
       [name |-> Paracetamol, value |-> 3] >>

\* C2: the value table resolved for Pill is exactly 0 Placebo, 1 Aspirin,
\* 2 Ibuprofen, 3 Paracetamol, and with the default flags every file written
\* for Pill is named pill_yamlenums.go.
C2_PillExample ==
    /\ Pill \in ResolvedTypes => analysis.TypesAndValues[Pill] = PillTable
    /\ \A k \in 1..Len(writes) :
          /\ Pill \in DOMAIN writes[k].data.chunks[1].text.TypesAndValues
                => writes[k].data.chunks[1].text.TypesAndValues[Pill] = PillTable
          /\ (DefaultFlags /\ types[writes[k].idx] = Pill)
                => writes[k].name = PillYamlenumsGo

\* yamlenums -type=Pill has finished and pill_yamlenums.go holds the table.
C2_Witness ==
    /\ pc = "done"
    /\ DefaultFlags
    /\ types = <<Pill>>
    /\ PillYamlenumsGo \in DOMAIN disk
    /\ Len(disk[PillYamlenumsGo].chunks) = 1
    /\ disk[PillYamlenumsGo].chunks[1].text.TypesAndValues[Pill] = PillTable

UsageError == Len(typeNames) = 0 \/ Len(args) > 1

\* C5: with an empty -type or more than one directory the run never gets to
\* ParsePackage, rendering or a write, the directory stays as it was, and
\* the run ends with a nonzero status.
C5_UsageError ==
    UsageError =>
        /\ pc \in {"flags", "args", "failed"}
        /\ parseCalls = 0
        /\ valueCalls = <<>>
        /\ renders = <<>>
        /\ writes = <<>>
        /\ disk = startDisk
        /\ pc = "failed" => (exitCode # 0 /\ failure = "usage")

\* Two directories were given with a valid -type.
C5_Witness ==
    /\ pc = "failed"
    /\ failure = "usage"
    /\ Len(args) > 1
    /\ Len(typeNames) > 0
    /\ exitCode = 1

\* C6: when a later run with the same command line ends (without an I/O
\* failure), every file of the directory is byte for byte what the first run
\* left.
C6_Idempotent ==
    (run >= 2 /\ pc \in {"done", "failed"} /\ failure # "write") => disk = firstDisk

\* The second run over two types has finished; it parsed the files the first
\* run generated and wrote both files again.
C6_Witness ==
    /\ run = 2
    /\ pc = "done"
    /\ Len(types) = 2
    /\ types[1] # types[2]
    /\ Len(writes) = 2
    /\ WrittenNames \subseteq DOMAIN startDisk
    /\ disk = firstDisk

\* C7 as stated: with the default flags and several types listed, the output
\* of the run is the one file t_yamlenums.go, t the lower-cased first type.
C7_FileNamedAfterFirstType ==
    (pc = "done" /\ DefaultFlags /\ Len(types) >= 2) =>
        WrittenNames = {ToLower(types[1]) \o DefaultSuffix \o DotGo}

\* C8: when ParsePackage fails the run ends there with a nonzero status:
\* ValuesOfType is called for no type, nothing is rendered, nothing written.
C8_ParseFailure ==
    (parseCalls > 0 /\ ParsePackage(startDisk).err) =>
        /\ pc = "failed"
        /\ failure = "parse"
        /\ exitCode # 0
        /\ valueCalls = <<>>
        /\ renders = <<>>
        /\ writes = <<>>
        /\ disk = startDisk

\* The directory holds two declared packages.
C8_Witness ==
    /\ pc = "failed"
    /\ failure = "parse"
    /\ startDisk = MixedDir
    /\ Len(types) >= 1

\* C9: a formatting failure is a warning only: the write that follows it
\* writes the rendered text unformatted, the run never ends because of it,
\* and a run that reaches its end has written a file for every listed type.
C9_FormatWarning ==
    /\ failure # "format"
    /\ (pc = "write" /\ FormatFails(buf)) =>
          /\ exitCode = 0
          /\ src = [text |-> buf, formatted |-> FALSE]
          /\ Len(warnings) >= 1
          /\ warnings[Len(warnings)] = i
    /\ \A k \in 1..Len(writes) :
          (\E h \in 1..Len(warnings) : warnings[h] = writes[k].idx) =>
              /\ ~writes[k].data.ok
              /\ \E h \in 1..Len(renders) :
                    /\ renders[h].idx = writes[k].idx
                    /\ writes[k].data.chunks = <<[text |-> renders[h].text,
                                                  formatted |-> FALSE]>>
    /\ pc = "done" =>
          /\ exitCode = 0
          /\ \A j \in 1..Len(types) :
                /\ Len(writes) >= j
                /\ writes[j].idx = j
                /\ writes[j].outcome = "ok"

\* Formatting failed for each of two types and both files were written.
C9_Witness ==
    /\ pc = "done"
    /\ exitCode = 0
    /\ Len(types) = 2
    /\ warnings = <<1, 2>>
    /\ Len(writes) = 2
    /\ ~writes[1].data.ok
    /\ ~writes[2].data.ok
    /\ writes[2].name \in DOMAIN disk

Listed(k) == {types[j] : j \in 1..k}

\* C10: the context is made once per run, and whenever the k-th listed type
\* is rendered its type mapping holds exactly the first k listed type names,
\* each with its resolved values; the file written for that type holds that
\* rendering.
C10_ContextAccumulates ==
    /\ parseCalls <= 1
    /\ \A h \in 1..Len(renders) :
          LET m == renders[h].text.TypesAndValues IN
          /\ DOMAIN m = Listed(renders[h].idx)
          /\ \A t \in DOMAIN m : m[t] = ValuesOfType(pkg, t).values
    /\ \A k \in 1..Len(writes) :
          /\ Len(writes[k].data.chunks) = 1
          /\ DOMAIN writes[k].data.chunks[1].text.TypesAndValues = Listed(writes[k].idx)

\* The file of the second of two different types is rendered from both.
C10_Witness ==
    /\ Len(writes) = 2
    /\ writes[2].outcome = "ok"
    /\ types[1] # types[2]
    /\ DOMAIN disk[writes[2].name].chunks[1].text.TypesAndValues = {types[1], types[2]}
    /\ DOMAIN disk[writes[1].name].chunks[1].text.TypesAndValues = {types[1]}

====
